---- MODULE Spec2Model ----
(***************************************************************************)
(* The compiler object of c4 (src/compiler.go): the IR emitter, the symbol *)
(* and namespace tables, the string and aggregate pools and finalization.  *)
(* One action per method of Compiler, called by the lowering pass in any   *)
(* order a translation allows.                                             *)
(***************************************************************************)
EXTENDS Integers, Sequences, FiniteSets, TLC

(* ------------------------------ bounds -------------------------------- *)

\* Lines the code buffer may hold before the driver stops adding calls.
MaxCode == 5
\* Temporaries and blocks the driver asks for directly in one function.
MaxTemp == 3
MaxBlk == 2
\* Calls of String in one translation.
MaxStrCalls == 4
\* Namespace objects created in one translation (the root included).
MaxNs == 2
\* Globals with storage in one translation.
MaxData == 2
\* Lines of code written before a local declaration, where two functions
\* are followed.
MaxLines == 8
\* Loops open at once.
MaxLoop == 2
\* Calls of Compile on one compiler.
MaxCompile == 2
\* Blocks asked for in one function where loops are followed.
MaxLoopBlk == 3
\* Namespace objects created where nested namespaces are followed.
MaxNest == 3

(* ------------------------------ helpers ------------------------------- *)

Digit == <<"0", "1", "2", "3", "4", "5", "6", "7", "8", "9">>

RECURSIVE Itoa(_)
Itoa(n) == IF n < 10 THEN Digit[n + 1] ELSE Itoa(n \div 10) \o Digit[(n % 10) + 1]

RECURSIVE ItoaChars(_)
ItoaChars(n) == IF n < 10 THEN <<Digit[n + 1]>>
                ELSE ItoaChars(n \div 10) \o <<Digit[(n % 10) + 1]>>

\* A Go string kept as its sequence of one-character strings.
RECURSIVE Str(_)
Str(chars) == IF chars = <<>> THEN "" ELSE Head(chars) \o Str(Tail(chars))

\* Byte values of the characters a layout identifier is made of.
Code(ch) ==
    CASE ch = "0" -> 48 [] ch = "1" -> 49 [] ch = "2" -> 50 [] ch = "3" -> 51
      [] ch = "4" -> 52 [] ch = "5" -> 53 [] ch = "6" -> 54 [] ch = "7" -> 55
      [] ch = "8" -> 56 [] ch = "9" -> 57 [] ch = ":" -> 58
      [] ch = "X" -> 88 [] ch = "Y" -> 89
      [] ch = "b" -> 98 [] ch = "d" -> 100 [] ch = "h" -> 104
      [] ch = "l" -> 108 [] ch = "s" -> 115 [] ch = "w" -> 119

\* strings.Compare on two character sequences: -1, 0 or 1, bytewise.
RECURSIVE Compare(_, _)
Compare(a, b) ==
    IF a = <<>> /\ b = <<>> THEN 0
    ELSE IF a = <<>> THEN -1
    ELSE IF b = <<>> THEN 1
    ELSE IF Code(Head(a)) < Code(Head(b)) THEN -1
    ELSE IF Code(Head(a)) > Code(Head(b)) THEN 1
    ELSE Compare(Tail(a), Tail(b))

EmptyMap == [k \in {} |-> TRUE]
Put(m, k, v) == [y \in DOMAIN m \cup {k} |-> IF y = k THEN v ELSE m[y]]

(* ------------------------------ operands ------------------------------ *)

TemporaryOperand(t) == "%t" \o Itoa(t)
BlockOperand(b) == "@b" \o Itoa(b)
GlobalOperand(g) == "$" \o g
IRInt(i) == Itoa(i)

OpTemp(t) == [kind |-> "temp", t |-> t]
OpInt(i) == [kind |-> "int", i |-> i]
OpGlobal(g) == [kind |-> "global", g |-> g]
OpBlock(b) == [kind |-> "block", b |-> b]
OpCall(var, func, args) == [kind |-> "call", Var |-> var, Func |-> func, Args |-> args]

SimpleOperand(o) ==
    CASE o.kind = "temp" -> TemporaryOperand(o.t)
      [] o.kind = "int" -> IRInt(o.i)
      [] o.kind = "global" -> GlobalOperand(o.g)
      [] o.kind = "block" -> BlockOperand(o.b)

RECURSIVE CallArgs(_, _)
CallArgs(args, i) ==
    IF i > Len(args) THEN ""
    ELSE (IF i > 1 THEN ", " ELSE "")
         \o (IF args[i].Ty = "h" \/ args[i].Ty = "b" THEN "w" ELSE args[i].Ty)
         \o " " \o SimpleOperand(args[i].Op)
         \o CallArgs(args, i + 1)

CallOperand(o) ==
    SimpleOperand(o.Func) \o "(" \o CallArgs(o.Args, 1)
    \o (IF o.Var THEN ", ..." ELSE "") \o ")"

Operand(o) == IF o.kind = "call" THEN CallOperand(o) ELSE SimpleOperand(o)

RECURSIVE OperandList(_, _)
OperandList(operands, i) ==
    IF i > Len(operands) THEN ""
    ELSE (IF i > 1 THEN "," ELSE "") \o " " \o Operand(operands[i])
         \o OperandList(operands, i + 1)

\* The letters of the IR base and storage types; any other type name is an
\* aggregate identifier.
Letters == {"b", "h", "w", "l", "s", "d"}

\* The aggregate identifiers an operand names.
OperandAggs(o) ==
    IF o.kind = "call"
    THEN {o.Args[i].Ty : i \in {j \in 1..Len(o.Args) : o.Args[j].Ty \notin Letters}}
    ELSE {}

(* ------------------------------- state -------------------------------- *)

VARIABLES
    typeW,      \* c.r.typeW, as the sequence of its lines
    codeW,      \* c.r.codeW, as the sequence of its lines
    blk,        \* c.blk
    temp,       \* c.temp
    ret,        \* c.ret
    loop,       \* c.loop
    ns,         \* c.ns, as references into heap
    heap,       \* the Namespace objects (Go maps are shared by reference)
    comp,       \* c.comp
    locals,     \* c.vars
    strs,       \* c.strs
    strM,       \* c.strM
    data,       \* c.data
    status,     \* "compiling", "done" (Compile returned a result), "failed"
                \* (Compile returned an error) or "crashed" (a panic left Compile)
    err,        \* the panic value, "" when none
    inFn,       \* the driver is between StartFunction and EndFunction
    op,         \* the call made by the last step
    res,        \* what that call returned
    out,        \* the CompileResult that Compile returned, <<>> when none
    strCalls,   \* history: the arguments of String, in call order
    registered, \* history: the identifiers of the layouts given to CompositeType
    compiles    \* history: the calls of Compile made on this compiler

vars == <<typeW, codeW, blk, temp, ret, loop, ns, heap, comp, locals, strs,
          strM, data, status, err, inFn, op, res, out, strCalls, registered,
          compiles>>

\* The compiler object as one value, threaded through the methods.
Cur == [typeW |-> typeW, codeW |-> codeW, blk |-> blk, temp |-> temp,
        ret |-> ret, loop |-> loop, ns |-> ns, heap |-> heap, comp |-> comp,
        locals |-> locals, strs |-> strs, strM |-> strM, data |-> data,
        panic |-> "", fatal |-> FALSE, registered |-> registered]

\* panic(msg) with a string: the value Compile's recover turns into err.
Panic(c, msg) == [c EXCEPT !.panic = msg]

\* A panic raised by the Go runtime (index or slice out of range, failed
\* type assertion): a runtime.Error, which Compile's recover panics again.
RuntimePanic(c, msg) == [c EXCEPT !.panic = msg, !.fatal = TRUE]

(* ------------------------------- types -------------------------------- *)

\* A register-sized type: IR base letter, storage letter, size = alignment.
Prim(name, base, ir, size) ==
    [name |-> name, base |-> base, ir |-> ir, Size |-> size, Align |-> size,
     layout |-> <<>>, fields |-> <<>>]

TypeI8 == Prim("I8", "w", "b", 1)
TypeI16 == Prim("I16", "w", "h", 2)
TypeI32 == Prim("I32", "w", "w", 4)
TypeI64 == Prim("I64", "l", "l", 8)
TypeU8 == Prim("U8", "w", "b", 1)
TypeU16 == Prim("U16", "w", "h", 2)
TypeU32 == Prim("U32", "w", "w", 4)
TypeU64 == Prim("U64", "l", "l", 8)
TypeF32 == Prim("F32", "s", "s", 4)
TypeF64 == Prim("F64", "d", "d", 8)
TypeBool == Prim("Bool", "w", "b", 1)

\* The zero value of ConcreteType, held by a type slot until it is resolved.
TypeNil == Prim("nil", "", "", 0)

\* struct { a I32 }
TypeS ==
    [name |-> "S", base |-> "", ir |-> "", Size |-> 4, Align |-> 4,
     layout |-> <<[Ty |-> <<"w">>, N |-> 1]>>,
     fields |-> <<[off |-> 0, ir |-> "w"]>>]

\* struct { a, b I32; c I64 }
TypeFoo ==
    [name |-> "Foo", base |-> "", ir |-> "", Size |-> 16, Align |-> 8,
     layout |-> <<[Ty |-> <<"w">>, N |-> 2], [Ty |-> <<"l">>, N |-> 1]>>,
     fields |-> <<[off |-> 0, ir |-> "w"], [off |-> 4, ir |-> "w"],
                  [off |-> 8, ir |-> "l"]>>]

\* struct { a, b, c I8 }
TypeBar ==
    [name |-> "Bar", base |-> "", ir |-> "", Size |-> 3, Align |-> 1,
     layout |-> <<[Ty |-> <<"b">>, N |-> 3]>>,
     fields |-> <<[off |-> 0, ir |-> "b"], [off |-> 1, ir |-> "b"],
                  [off |-> 2, ir |-> "b"]>>]

\* struct { a I8; b I64; c I8 }
TypeBaz ==
    [name |-> "Baz", base |-> "", ir |-> "", Size |-> 24, Align |-> 8,
     layout |-> <<[Ty |-> <<"b">>, N |-> 1], [Ty |-> <<"l">>, N |-> 1],
                  [Ty |-> <<"b">>, N |-> 1]>>,
     fields |-> <<[off |-> 0, ir |-> "b"], [off |-> 8, ir |-> "l"],
                  [off |-> 16, ir |-> "b"]>>]

\* [I8 10]
TypeBuf ==
    [name |-> "[I8 10]", base |-> "", ir |-> "", Size |-> 10, Align |-> 1,
     layout |-> <<[Ty |-> <<"b">>, N |-> 10]>>,
     fields |-> [i \in 1..10 |-> [off |-> i - 1, ir |-> "b"]],
     kind |-> "ArrayType", Ty |-> TypeI8, N |-> 10]

\* [S 2], an array of struct { a I32 }
TypeArr ==
    [name |-> "[S 2]", base |-> "", ir |-> "", Size |-> 8, Align |-> 4,
     layout |-> <<[Ty |-> <<":", "w">>, N |-> 2]>>,
     fields |-> <<[off |-> 0, ir |-> "w"], [off |-> 4, ir |-> "w"]>>,
     kind |-> "ArrayType", Ty |-> TypeS, N |-> 2]

\* Concrete types that differ from the others only in their metrics: an
\* alignment of 16, the largest allocLocal serves, and one of 32.
TypeAlign16 ==
    [name |-> "Align16", base |-> "", ir |-> "", Size |-> 32, Align |-> 16,
     layout |-> <<[Ty |-> <<"l">>, N |-> 4]>>, fields |-> <<>>]
TypeAlign32 ==
    [name |-> "Align32", base |-> "", ir |-> "", Size |-> 32, Align |-> 32,
     layout |-> <<[Ty |-> <<"l">>, N |-> 4]>>, fields |-> <<>>]

baseTypes ==
    [n \in {"I64", "I32", "I16", "I8", "U64", "U32", "U16", "U8", "F64",
            "F32", "Bool"} |->
        CASE n = "I64" -> TypeI64 [] n = "I32" -> TypeI32
          [] n = "I16" -> TypeI16 [] n = "I8" -> TypeI8
          [] n = "U64" -> TypeU64 [] n = "U32" -> TypeU32
          [] n = "U16" -> TypeU16 [] n = "U8" -> TypeU8
          [] n = "F64" -> TypeF64 [] n = "F32" -> TypeF32
          [] n = "Bool" -> TypeBool]

\* The kind of a type that is no plain record of metrics: pointer,
\* array, function or literal type.
Kind(ty) == IF "kind" \in DOMAIN ty THEN ty.kind ELSE "ConcreteType"

\* Metrics: a pointer is 8 bytes aligned to 8 (`alloc8 8` for `var p [I32]`,
\* TestPointerArithmetic); the other types carry their own.
Metrics(ty) ==
    IF Kind(ty) = "PointerType" THEN [Size |-> 8, Align |-> 8]
    ELSE [Size |-> ty.Size, Align |-> ty.Align]
IRBaseTypeName(ty) == ty.base

(* --------------------------- aggregate pool --------------------------- *)

RECURSIVE IdentEntries(_, _)
IdentEntries(l, i) ==
    IF i > Len(l) THEN <<>>
    ELSE (IF Len(l[i].Ty) > 1 THEN <<"X">> \o l[i].Ty \o <<"Y">> ELSE l[i].Ty)
         \o (IF l[i].N > 1 THEN ItoaChars(l[i].N) ELSE <<>>)
         \o IdentEntries(l, i + 1)

\* CompositeLayout.Ident, as characters.
Ident(l) == <<":">> \o IdentEntries(l, 1)

InsertAt(s, i, e) == SubSeq(s, 1, i - 1) \o <<e>> \o SubSeq(s, i, Len(s))

\* CompositeType that appends every layout it does not find.
CompositeTypeAppend(pool, layout, i) ==
    IF \E j \in DOMAIN pool : Ident(pool[j]) = Ident(layout) THEN pool
    ELSE Append(pool, layout)

RECURSIVE CompositeTypeFrom(_, _, _)
CompositeTypeFrom(pool, layout, i) ==
    IF i > Len(pool) THEN Append(pool, layout)
    ELSE LET cmp == Compare(Ident(pool[i]), Ident(layout))
         IN IF cmp = 0 THEN pool
            ELSE IF cmp = 1 THEN InsertAt(pool, i, layout)
            ELSE CompositeTypeFrom(pool, layout, i + 1)

\* Compiler.CompositeType: the new compiler and the identifier returned.
CompositeType(c, layout) ==
    [c |-> [c EXCEPT !.comp = CompositeTypeFrom(c.comp, layout, 1),
                     !.registered = @ \cup {Ident(layout)}],
     v |-> Str(Ident(layout))]

\* Type.IRTypeName(c): the storage letter of a register-sized type; an
\* aggregate registers its layout and is named by the layout identifier.
IRTypeName(c, ty) ==
    IF ty.base # "" THEN [c |-> c, v |-> ty.ir] ELSE CompositeType(c, ty.layout)

(* ------------------------------ emitter ------------------------------- *)

InsnLine(retVar, retType, opcode, operands) ==
    LET b == opcode \o OperandList(operands, 1)
    IN [k |-> "insn", opcode |-> opcode,
        aggs |-> UNION {OperandAggs(operands[i]) : i \in 1..Len(operands)},
        text |-> IF retVar = 0 THEN "\t" \o b \o "\n"
                 ELSE "\t" \o TemporaryOperand(retVar) \o " =" \o retType
                      \o " " \o b \o "\n"]

\* Writef: the formatted line goes to the code buffer, whatever the
\* after-ret flag is.
Writef(c, line) == [c EXCEPT !.codeW = Append(@, line)]

\* Insn without the early return after `ret`.
InsnNoSkip(c, retVar, retType, opcode, operands) ==
    [Writef(c, InsnLine(retVar, retType, opcode, operands))
        EXCEPT !.ret = (opcode = "ret")]

Insn(c, retVar, retType, opcode, operands) ==
    IF c.ret THEN c
    ELSE [Writef(c, InsnLine(retVar, retType, opcode, operands))
             EXCEPT !.ret = (opcode = "ret")]

LabelLine(text) == [k |-> "label", opcode |-> "", aggs |-> {}, text |-> text \o "\n"]

\* StartBlock that leaves the after-ret flag as it is.
StartBlockKeepRet(c, block) ==
    [c EXCEPT !.codeW = Append(@, LabelLine(BlockOperand(block)))]

StartBlock(c, block) ==
    [Writef(c, LabelLine(BlockOperand(block))) EXCEPT !.ret = FALSE]

Block(c) == [c |-> [c EXCEPT !.blk = @ + 1], v |-> c.blk + 1]

Temporary(c) == [c |-> [c EXCEPT !.temp = @ + 1], v |-> c.temp + 1]

StartLoop(c, start, end) == [c EXCEPT !.loop = Append(@, [Start |-> start, End |-> end])]

\* c.loop[:len(c.loop)-1]: with no loop open the slice bound is -1.
EndLoop(c) ==
    IF Len(c.loop) = 0
    THEN RuntimePanic(c, "runtime error: slice bounds out of range [:-1]")
    ELSE [c EXCEPT !.loop = SubSeq(@, 1, Len(@) - 1)]

\* Loop that answers with the outermost open loop.
LoopOutermost(c) ==
    IF Len(c.loop) = 0
    THEN [c |-> RuntimePanic(c, "runtime error: index out of range [-1]"), v |-> <<>>]
    ELSE [c |-> c, v |-> c.loop[1]]

\* c.loop[len(c.loop)-1]: with no loop open the index is -1.
Loop(c) ==
    IF Len(c.loop) = 0
    THEN [c |-> RuntimePanic(c, "runtime error: index out of range [-1]"), v |-> <<>>]
    ELSE [c |-> c, v |-> c.loop[Len(c.loop)]]

\* allocLocal with the alignment classes cut one below their bound.
allocLocalBelow(c, loc, ty) ==
    LET m == Metrics(ty)
    IN IF m.Align < 4 THEN Insn(c, loc, "l", "alloc4", <<OpInt(m.Size)>>)
       ELSE IF m.Align < 8 THEN Insn(c, loc, "l", "alloc8", <<OpInt(m.Size)>>)
       ELSE IF m.Align < 16 THEN Insn(c, loc, "l", "alloc16", <<OpInt(m.Size)>>)
       ELSE Panic(c, "Invalid alignment")

allocLocal(c, loc, ty) ==
    LET m == Metrics(ty)
    IN IF m.Align <= 4 THEN Insn(c, loc, "l", "alloc4", <<OpInt(m.Size)>>)
       ELSE IF m.Align <= 8 THEN Insn(c, loc, "l", "alloc8", <<OpInt(m.Size)>>)
       ELSE IF m.Align <= 16 THEN Insn(c, loc, "l", "alloc16", <<OpInt(m.Size)>>)
       ELSE Panic(c, "Invalid alignment")

\* NS(): the namespace on top of the stack.
NS(c) == c.heap[c.ns[Len(c.ns)]]

\* The first loop of StartFunction writing every type name as it is.
RECURSIVE StartFunctionParamsRaw(_, _, _)
StartFunctionParamsRaw(st, params, i) ==
    IF i > Len(params) THEN st
    ELSE LET n == IRTypeName(st.c, params[i].Ty)
             t == Temporary(n.c)
         IN StartFunctionParamsRaw(
                [c |-> t.c,
                 pbuild |-> st.pbuild \o (IF i > 1 THEN ", " ELSE "") \o n.v
                            \o " " \o TemporaryOperand(t.v),
                 ptemps |-> Append(st.ptemps, t.v),
                 aggs |-> st.aggs \cup (IF n.v \in Letters THEN {} ELSE {n.v})],
                params, i + 1)

\* First loop of StartFunction: the parameter list of the header, one
\* temporary per parameter.  st = [c, pbuild, ptemps, aggs].
RECURSIVE StartFunctionParams(_, _, _)
StartFunctionParams(st, params, i) ==
    IF i > Len(params) THEN st
    ELSE LET n == IRTypeName(st.c, params[i].Ty)
             ptype == IF n.v = "b" \/ n.v = "h" THEN "w" ELSE n.v
             t == Temporary(n.c)
         IN StartFunctionParams(
                [c |-> t.c,
                 pbuild |-> st.pbuild \o (IF i > 1 THEN ", " ELSE "") \o ptype
                            \o " " \o TemporaryOperand(t.v),
                 ptemps |-> Append(st.ptemps, t.v),
                 aggs |-> st.aggs \cup (IF ptype \in Letters THEN {} ELSE {ptype})],
                params, i + 1)

\* The second loop of StartFunction binding every name to the incoming
\* temporary, the slot of a register-sized parameter left unused.
RECURSIVE StartFunctionLocalsIncoming(_, _, _, _)
StartFunctionLocalsIncoming(c, params, ptemps, i) ==
    IF i > Len(params) \/ c.panic # "" THEN c
    ELSE LET ty == params[i].Ty
             prim == IRBaseTypeName(ty) # ""
             t == Temporary(c)
             c1 == allocLocal(t.c, t.v, ty)
             c2 == IF c1.panic # "" THEN c1
                   ELSE Insn(c1, 0, "", "store" \o IRTypeName(c1, ty).v,
                             <<OpTemp(ptemps[i]), OpTemp(t.v)>>)
             c3 == IF prim THEN c2 ELSE c
         IN IF c3.panic # "" THEN c3
            ELSE StartFunctionLocalsIncoming(
                     [c3 EXCEPT !.locals = Put(@, params[i].Name,
                                               [Loc |-> OpTemp(ptemps[i]), Ty |-> ty])],
                     params, ptemps, i + 1)

\* Second loop of StartFunction: the parameters become locals.
RECURSIVE StartFunctionLocals(_, _, _, _)
StartFunctionLocals(c, params, ptemps, i) ==
    IF i > Len(params) \/ c.panic # "" THEN c
    ELSE LET ty == params[i].Ty
             prim == IRBaseTypeName(ty) # ""
             t == Temporary(c)
             c1 == allocLocal(t.c, t.v, ty)
             c2 == IF c1.panic # "" THEN c1
                   ELSE Insn(c1, 0, "", "store" \o IRTypeName(c1, ty).v,
                             <<OpTemp(ptemps[i]), OpTemp(t.v)>>)
             loc == IF prim THEN t.v ELSE ptemps[i]
             c3 == IF prim THEN c2 ELSE c
         IN IF c3.panic # "" THEN c3
            ELSE StartFunctionLocals(
                     [c3 EXCEPT !.locals = Put(@, params[i].Name,
                                               [Loc |-> OpTemp(loc), Ty |-> ty])],
                     params, ptemps, i + 1)

StartFunction(c, export, name, params, retType) ==
    LET prefix == IF export THEN "export " ELSE ""
        st == StartFunctionParams([c |-> c, pbuild |-> "", ptemps |-> <<>>,
                                   aggs |-> {}], params, 1)
        rt1 == IF retType = "b" \/ retType = "h" THEN "w" ELSE retType
        rt2 == IF rt1 # "" THEN rt1 \o " " ELSE rt1
        fname == NS(st.c).Name \o name
        header == [k |-> "func", opcode |-> "",
                   aggs |-> st.aggs \cup (IF rt1 \in Letters \cup {""} THEN {} ELSE {rt1}),
                   text |-> prefix \o "function " \o rt2 \o "$" \o fname
                            \o "(" \o st.pbuild \o ") {\n"]
        c1 == [st.c EXCEPT !.codeW = @ \o <<header, LabelLine("@start")>>]
    IN StartFunctionLocals(c1, params, st.ptemps, 1)

CloseLine == [k |-> "close", opcode |-> "", aggs |-> {}, text |-> "}\n"]

\* EndFunction that leaves the local variable table as it is.
EndFunctionKeepLocals(c) ==
    LET c1 == IF ~c.ret THEN Insn(c, 0, "", "ret", <<>>) ELSE c
    IN [c1 EXCEPT !.codeW = Append(@, CloseLine), !.temp = 0, !.blk = 0,
                  !.ret = FALSE]

\* EndFunction that does not reset the temporary and block counters.
EndFunctionKeepCounters(c) ==
    LET c1 == IF ~c.ret THEN Insn(c, 0, "", "ret", <<>>) ELSE c
    IN [c1 EXCEPT !.codeW = Append(@, CloseLine), !.ret = FALSE, !.locals = EmptyMap]

EndFunction(c) ==
    LET c1 == IF ~c.ret THEN Insn(c, 0, "", "ret", <<>>) ELSE c
    IN [c1 EXCEPT !.codeW = Append(@, CloseLine), !.temp = 0, !.blk = 0,
                  !.ret = FALSE, !.locals = EmptyMap]

(* ---------------------------- symbol table ---------------------------- *)

\* A value of Namespace.Vars that is a nested namespace.
NsRef(id) == [nsref |-> id]

\* StartNamespace that names the new namespace without the prefix of the
\* enclosing one.
StartNamespaceFlat(c, name) ==
    LET cur == c.ns[Len(c.ns)]
        id == Len(c.heap) + 1
        nsNew == [Name |-> name \o ".", Vars |-> EmptyMap, Typs |-> EmptyMap]
    IN [c EXCEPT !.heap = Append([@ EXCEPT ![cur].Vars = Put(@, name, NsRef(id))],
                                 nsNew),
                 !.ns = Append(@, id)]

StartNamespace(c, name) ==
    LET cur == c.ns[Len(c.ns)]
        id == Len(c.heap) + 1
        nsNew == [Name |-> c.heap[cur].Name \o name \o ".", Vars |-> EmptyMap,
                  Typs |-> EmptyMap]
    IN [c EXCEPT !.heap = Append([@ EXCEPT ![cur].Vars = Put(@, name, NsRef(id))],
                                 nsNew),
                 !.ns = Append(@, id)]

\* EndNamespace that pops without looking at what is left.
EndNamespaceNoCheck(c) == [c EXCEPT !.ns = SubSeq(@, 1, Len(@) - 1)]

\* c.ns[:len(c.ns)-1], then the test: on a stack that is already empty
\* the slice bound is -1.
EndNamespace(c) ==
    IF Len(c.ns) = 0
    THEN RuntimePanic(c, "runtime error: slice bounds out of range [:-1]")
    ELSE LET c1 == [c EXCEPT !.ns = SubSeq(@, 1, Len(@) - 1)]
         IN IF Len(c1.ns) = 0 THEN Panic(c1, "[compiler bug] End of global namespace")
            ELSE c1

AliasType(c, name) ==
    LET cur == c.ns[Len(c.ns)]
    IN IF name \in DOMAIN c.heap[cur].Typs
       THEN [c |-> Panic(c, "Type already exists"), v |-> <<>>]
       ELSE [c |-> [c EXCEPT !.heap[cur].Typs = Put(@, name, TypeNil)],
             v |-> <<cur, name>>]

\* DeclareGlobal that gives storage to an extern global too.
DeclareGlobalAlwaysData(c, extern, name, ty) ==
    LET cur == c.ns[Len(c.ns)]
    IN IF name \in DOMAIN c.heap[cur].Vars THEN Panic(c, "Variable already exists")
       ELSE [c EXCEPT !.heap[cur].Vars = Put(@, name, ty),
                      !.data = Append(@, [Loc |-> OpGlobal(c.heap[cur].Name \o name),
                                          Ty |-> ty])]

\* DeclareGlobal that looks for the name in the root namespace.
DeclareGlobalRootCheck(c, extern, name, ty) ==
    LET cur == c.ns[Len(c.ns)]
    IN IF name \in DOMAIN c.heap[c.ns[1]].Vars THEN Panic(c, "Variable already exists")
       ELSE LET c1 == [c EXCEPT !.heap[cur].Vars = Put(@, name, ty)]
            IN IF ~extern
               THEN [c1 EXCEPT !.data = Append(@, [Loc |-> OpGlobal(c.heap[cur].Name \o name),
                                                   Ty |-> ty])]
               ELSE c1

DeclareGlobal(c, extern, name, ty) ==
    LET cur == c.ns[Len(c.ns)]
    IN IF name \in DOMAIN c.heap[cur].Vars THEN Panic(c, "Variable already exists")
       ELSE LET c1 == [c EXCEPT !.heap[cur].Vars = Put(@, name, ty)]
            IN IF ~extern
               THEN [c1 EXCEPT !.data = Append(@, [Loc |-> OpGlobal(c.heap[cur].Name \o name),
                                                   Ty |-> ty])]
               ELSE c1

\* Type.GenZero(c, loc): one store for a register-sized type; for a struct
\* one store per field, at loc for offset 0 and at a fresh `add` otherwise.
RECURSIVE GenZeroFields(_, _, _, _)
GenZeroFields(c, fields, loc, i) ==
    IF i > Len(fields) THEN c
    ELSE IF fields[i].off = 0
    THEN GenZeroFields(Insn(c, 0, "", "store" \o fields[i].ir,
                            <<OpInt(0), OpTemp(loc)>>), fields, loc, i + 1)
    ELSE LET t == Temporary(c)
             c1 == Insn(t.c, t.v, "l", "add", <<OpTemp(loc), OpInt(fields[i].off)>>)
         IN GenZeroFields(Insn(c1, 0, "", "store" \o fields[i].ir,
                               <<OpInt(0), OpTemp(t.v)>>), fields, loc, i + 1)

GenZero(c, ty, loc) ==
    IF ty.base # "" THEN Insn(c, 0, "", "store" \o ty.ir, <<OpInt(0), OpTemp(loc)>>)
    ELSE GenZeroFields(c, ty.fields, loc, 1)

\* DeclareLocal that takes its temporary before it looks the name up.
DeclareLocalEager(c, name, ty) ==
    LET t == Temporary(c)
    IN IF name \in DOMAIN c.locals THEN Panic(t.c, "Variable already exists")
       ELSE LET c1 == [t.c EXCEPT !.locals = Put(@, name, [Loc |-> OpTemp(t.v), Ty |-> ty])]
                c2 == allocLocal(c1, t.v, ty)
            IN IF c2.panic # "" THEN c2 ELSE GenZero(c2, ty, t.v)

DeclareLocal(c, name, ty) ==
    IF name \in DOMAIN c.locals THEN Panic(c, "Variable already exists")
    ELSE LET t == Temporary(c)
             c1 == [t.c EXCEPT !.locals = Put(@, name, [Loc |-> OpTemp(t.v), Ty |-> ty])]
             c2 == allocLocal(c1, t.v, ty)
         IN IF c2.panic # "" THEN c2 ELSE GenZero(c2, ty, t.v)

\* nsVar(i, name), i counted from 1.
nsVar(c, i, name) ==
    LET n == c.heap[c.ns[i]]
    IN IF name \in DOMAIN n.Vars
       THEN [v |-> [Loc |-> OpGlobal(n.Name \o name), Ty |-> n.Vars[name]], ok |-> TRUE]
       ELSE [v |-> <<>>, ok |-> FALSE]

\* Variable that asks the root namespace before the current one.
VariableRootFirst(c, name) ==
    IF name \in DOMAIN c.locals THEN [c |-> c, v |-> c.locals[name]]
    ELSE IF nsVar(c, 1, name).ok THEN [c |-> c, v |-> nsVar(c, 1, name).v]
    ELSE IF nsVar(c, Len(c.ns), name).ok THEN [c |-> c, v |-> nsVar(c, Len(c.ns), name).v]
    ELSE [c |-> Panic(c, "Undefined variable: " \o name), v |-> <<>>]

Variable(c, name) ==
    IF name \in DOMAIN c.locals THEN [c |-> c, v |-> c.locals[name]]
    ELSE IF nsVar(c, Len(c.ns), name).ok THEN [c |-> c, v |-> nsVar(c, Len(c.ns), name).v]
    ELSE IF nsVar(c, 1, name).ok THEN [c |-> c, v |-> nsVar(c, 1, name).v]
    ELSE [c |-> Panic(c, "Undefined variable: " \o name), v |-> <<>>]

(* ----------------------------- type check ---------------------------- *)

\* The types the checker tells apart by their Go type.
FuncType(r) == [kind |-> "FuncType", Ret |-> r]
PointerType(to) == [kind |-> "PointerType", To |-> to]

\* CallExpr.typeOf, given the type of the called expression.  For a
\* pointer the pointee goes through the type assertion t.To.(FuncType),
\* which panics with a runtime.Error when the pointee is no function.
CallExpr_typeOf(c, ft) ==
    IF Kind(ft) = "FuncType" THEN [c |-> c, v |-> [t |-> ft, ptr |-> FALSE]]
    ELSE IF Kind(ft) = "PointerType"
    THEN IF Kind(ft.To) = "FuncType"
         THEN [c |-> c, v |-> [t |-> ft.To, ptr |-> TRUE]]
         ELSE [c |-> RuntimePanic(c, "interface conversion: Type is not FuncType"),
               v |-> <<>>]
    ELSE [c |-> Panic(c, "Invalid function type"), v |-> <<>>]

\* DerefExpr.TypeOf, given the type of the operand: the pointee of a
\* pointer, which for the generic pointer is the absent type.
DerefExpr_TypeOf(c, vt) ==
    IF Kind(vt) = "PointerType" THEN [c |-> c, v |-> vt.To]
    ELSE [c |-> Panic(c, "Dereference of non-pointer type"), v |-> <<>>]

\* The types of an integer and of a float literal, and the pointer
\* without a pointee.
IntLitType == [kind |-> "IntLitType"]
FloatLitType == [kind |-> "FloatLitType"]
GenericPointer == PointerType(<<>>)

IntegerTypes ==
    {TypeI8, TypeI16, TypeI32, TypeI64, TypeU8, TypeU16, TypeU32, TypeU64}
FloatTypes == {TypeF32, TypeF64}
\* NumericType: the integer and the float types, and the pointers: the
\* sum of a pointer and an integer literal passes the check of
\* BinaryExpr.TypeOf with the pointer's type (`[baz + 3]`, TestTypeDef).
IsNumericType(ty) == ty \in IntegerTypes \cup FloatTypes \/ Kind(ty) = "PointerType"

IsConcrete(ty) == Kind(ty) \notin {"IntLitType", "FloatLitType"}
\* Type.Concrete: a literal type becomes the widest type of its kind, an
\* array the pointer to its element: the sum of an array and an integer
\* literal is dereferenced as the element (`[a + 2] = 1`, TestArrayType).
Concrete(ty) ==
    IF Kind(ty) = "IntLitType" THEN TypeI64
    ELSE IF Kind(ty) = "FloatLitType" THEN TypeF64
    ELSE IF Kind(ty) = "ArrayType" THEN PointerType(ty.Ty) ELSE ty

\* Compatible: equal types, an integer literal with any type that is
\* numeric once concrete (a pointer is one, an array becomes one), a
\* float literal with a float type, the generic pointer with any pointer.
Compatible(a, b) ==
    \/ a = b
    \/ Kind(a) = "IntLitType" /\ IsNumericType(Concrete(b))
    \/ Kind(b) = "IntLitType" /\ IsNumericType(Concrete(a))
    \/ Kind(a) = "FloatLitType" /\ b \in FloatTypes
    \/ Kind(b) = "FloatLitType" /\ a \in FloatTypes
    \/ Kind(a) = "PointerType" /\ Kind(b) = "PointerType"
       /\ (a = GenericPointer \/ b = GenericPointer)

\* BinaryExpr.TypeOf, given the operator and the types of the operands.
\* The operator takes no part in the check.
BinaryExpr_TypeOf(c, operator, ltyp, rtyp) ==
    IF ~Compatible(ltyp, rtyp)
    THEN [c |-> Panic(c, "Operands of binary expression are incompatible"), v |-> <<>>]
    ELSE LET ctyp == IF ~IsConcrete(ltyp) /\ IsConcrete(rtyp)
                     THEN Concrete(rtyp) ELSE Concrete(ltyp)
         IN IF ~IsNumericType(ctyp)
            THEN [c |-> Panic(c, "Operand of binary expression is of non-numeric type"),
                  v |-> <<>>]
            ELSE [c |-> c, v |-> ctyp]

(* ---------------------- string pool, finalization --------------------- *)

\* The printable bytes the model's string literals use.
Chr(b) == CASE b = 104 -> "h" [] b = 105 -> "i" [] b = 32 -> " " [] b = 126 -> "~"

RECURSIVE IRStringBytes(_, _, _)
IRStringBytes(bytes, i, inStr) ==
    IF i > Len(bytes) THEN " }"
    ELSE LET ch == bytes[i]
         IN IF 32 <= ch /\ ch <= 126
            THEN (IF ~inStr THEN (IF i > 1 THEN "," ELSE "") \o " b \"" ELSE "")
                 \o Chr(ch) \o IRStringBytes(bytes, i + 1, TRUE)
            ELSE (IF inStr THEN "\"" ELSE "") \o (IF i > 1 THEN "," ELSE "")
                 \o " b " \o Itoa(ch) \o IRStringBytes(bytes, i + 1, FALSE)

\* IRString.String: the data definition of a string and its trailing NUL.
IRString(s) == "{" \o IRStringBytes(Append(s, 0), 1, FALSE)

\* String that never finds the string in the map.
StringNoDedup(c, str) ==
    [c |-> [c EXCEPT !.strM = Put(@, str, Len(c.strs)), !.strs = Append(@, str)],
     v |-> "str" \o Itoa(Len(c.strs))]

String(c, str) ==
    LET ok == str \in DOMAIN c.strM
        i == IF ok THEN c.strM[str] ELSE Len(c.strs)
        c1 == IF ok THEN c
              ELSE [c EXCEPT !.strM = Put(@, str, i), !.strs = Append(@, str)]
    IN [c |-> c1, v |-> "str" \o Itoa(i)]

RECURSIVE GenTypeEntries(_, _)
GenTypeEntries(l, i) ==
    IF i > Len(l) THEN ""
    ELSE (IF i > 1 THEN ", " ELSE "") \o Str(l[i].Ty)
         \o (IF l[i].N > 1 THEN " " \o Itoa(l[i].N) ELSE "")
         \o GenTypeEntries(l, i + 1)

\* GenType that writes the declaration to the code buffer.
GenTypeToCode(c, l) ==
    [c EXCEPT !.codeW = Append(@, [k |-> "type", opcode |-> "", aggs |-> {Str(Ident(l))},
                                   text |-> "type " \o Str(Ident(l)) \o " = { "
                                            \o GenTypeEntries(l, 1) \o " }\n"])]

\* CompositeLayout.GenType: one declaration in the types buffer.
GenType(c, l) ==
    [c EXCEPT !.typeW = Append(@, [k |-> "type", opcode |-> "", aggs |-> {Str(Ident(l))},
                                   text |-> "type " \o Str(Ident(l)) \o " = { "
                                            \o GenTypeEntries(l, 1) \o " }\n"])]

RECURSIVE FinishTypes(_, _)
FinishTypes(c, i) == IF i > Len(c.comp) THEN c ELSE FinishTypes(GenType(c, c.comp[i]), i + 1)

StrLine(i, str) ==
    [k |-> "datastr", opcode |-> "", aggs |-> {},
     text |-> "data $str" \o Itoa(i) \o " = " \o IRString(str) \o "\n"]

\* The line of one global: the metrics are those of data.Ty.Concrete().
DataLine(d) ==
    LET m == Metrics(Concrete(d.Ty))
    IN [k |-> "data", opcode |-> "", aggs |-> {},
        text |-> "data " \o GlobalOperand(d.Loc.g) \o " = align " \o Itoa(m.Align)
                 \o " { z " \o Itoa(m.Size) \o " }\n"]

Finish(c) ==
    LET c1 == FinishTypes(c, 1)
    IN [c1 EXCEPT !.codeW = @ \o [i \in 1..Len(c.strs) |-> StrLine(i - 1, c.strs[i])]
                              \o [i \in 1..Len(c.data) |-> DataLine(c.data[i])]]

\* CompileResult.String: the types buffer, then the code buffer.
ResultString(r) == r.typeW \o r.codeW

\* The bytes of the lines of a buffer.
RECURSIVE ByteLen(_)
ByteLen(buf) == IF buf = <<>> THEN 0 ELSE Len(buf[1].text) + ByteLen(Tail(buf))

\* bytes.Buffer.WriteTo for one answer of the writer, which takes whole
\* lines: the lines the writer took leave the buffer; the writer's error,
\* or a short write, ends the call with the rest still buffered.
\* resp = [all, m, e]: the writer takes everything or at most m lines,
\* and reports an error or not.
BufferWriteTo(buf, resp) ==
    LET m == IF resp.all \/ resp.m > Len(buf) THEN Len(buf) ELSE resp.m
        rest == SubSeq(buf, m + 1, Len(buf))
        n == ByteLen(SubSeq(buf, 1, m))
    IN IF resp.e THEN [buf |-> rest, n |-> n, err |-> "write error"]
       ELSE IF m # Len(buf) THEN [buf |-> rest, n |-> n, err |-> "short write"]
       ELSE [buf |-> <<>>, n |-> n, err |-> ""]

\* CompileResult.WriteTo: the types buffer is written, then, unless that
\* failed, the code buffer.  An empty buffer makes no call of the writer.
\* w is the sequence of the writer's answers.
WriteTo(r, w) ==
    LET t == IF r.typeW = <<>> THEN [buf |-> <<>>, n |-> 0, err |-> ""]
             ELSE BufferWriteTo(r.typeW, w[1])
        w2 == IF r.typeW = <<>> THEN w ELSE Tail(w)
    IN IF t.err # ""
       THEN [r |-> [typeW |-> t.buf, codeW |-> r.codeW], n |-> t.n, err |-> t.err]
       ELSE LET k == IF r.codeW = <<>> THEN [buf |-> <<>>, n |-> 0, err |-> ""]
                     ELSE BufferWriteTo(r.codeW, w2[1])
            IN [r |-> [typeW |-> t.buf, codeW |-> k.buf], n |-> t.n + k.n, err |-> k.err]

(* ------------------------- NewCompiler, Compile ----------------------- *)

NoRes == <<>>

Init ==
    /\ typeW = <<>> /\ codeW = <<>>
    /\ blk = 0 /\ temp = 0 /\ ret = FALSE
    /\ loop = <<>>
    /\ heap = <<[Name |-> "", Vars |-> EmptyMap, Typs |-> baseTypes]>>
    /\ ns = <<1>>
    /\ comp = <<>>
    /\ locals = EmptyMap
    /\ strs = <<>> /\ strM = EmptyMap
    /\ data = <<>>
    /\ status = "compiling" /\ err = "" /\ inFn = FALSE
    /\ op = [name |-> "NewCompiler"] /\ res = NoRes /\ out = <<>>
    /\ strCalls = <<>> /\ registered = {}
    /\ compiles = 1

\* The step of one call made while Compile runs: the compiler after the
\* call, or the panic that Compile recovers as its error.
Set(c, o, v, fn) ==
    /\ typeW' = c.typeW /\ codeW' = c.codeW
    /\ blk' = c.blk /\ temp' = c.temp /\ ret' = c.ret
    /\ loop' = c.loop /\ ns' = c.ns /\ heap' = c.heap
    /\ comp' = c.comp /\ locals' = c.locals
    /\ strs' = c.strs /\ strM' = c.strM /\ data' = c.data
    /\ registered' = c.registered
    /\ op' = o
    /\ res' = IF c.panic # "" THEN NoRes ELSE v
    /\ err' = c.panic
    /\ status' = IF c.fatal THEN "crashed"
                  ELSE IF c.panic # "" THEN "failed" ELSE "compiling"
    /\ inFn' = fn
    /\ out' = out
    /\ compiles' = compiles

FuncCount == Cardinality({i \in DOMAIN codeW : codeW[i].k = "func"})

(* ------------------------------ the calls ----------------------------- *)

\* A function declaration: the lowering names the return type, then opens
\* the function.  sig.ret is <<>> for no return type, <<ty>> otherwise.
StartFunctionCall(sigs) ==
    \E sig \in sigs :
        /\ status = "compiling" /\ ~inFn
        /\ Len(codeW) < MaxCode
        /\ LET r == IF sig.ret = <<>> THEN [c |-> Cur, v |-> ""]
                    ELSE IRTypeName(Cur, sig.ret[1])
           IN Set(StartFunction(r.c, sig.export, sig.name, sig.params, r.v),
                  [name |-> "StartFunction", sig |-> sig], NoRes, TRUE)
        /\ strCalls' = strCalls

EndFunctionCall ==
    /\ status = "compiling" /\ inFn
    /\ Set(EndFunction(Cur), [name |-> "EndFunction"], NoRes, FALSE)
    /\ strCalls' = strCalls

\* The instructions the lowering emits: a return, a store, and an
\* arithmetic instruction bound to the newest temporary.
InsnInputs ==
    {[retVar |-> 0, retType |-> "", opcode |-> "ret", operands |-> <<>>],
     [retVar |-> 0, retType |-> "", opcode |-> "storew",
      operands |-> <<OpInt(0), OpTemp(1)>>]}
    \cup {[retVar |-> temp, retType |-> "w", opcode |-> "add",
           operands |-> <<OpTemp(1), OpInt(1)>>] : x \in {y \in {0} : temp > 0}}

InsnCall(opcodes) ==
    \E i \in {j \in InsnInputs : j.opcode \in opcodes} :
        /\ status = "compiling" /\ inFn
        /\ Len(codeW) < MaxCode
        /\ Set(Insn(Cur, i.retVar, i.retType, i.opcode, i.operands),
               [name |-> "Insn", opcode |-> i.opcode, in |-> i], NoRes, TRUE)
        /\ strCalls' = strCalls

\* A direct call of Writef with an instruction line.
WritefCall(lines) ==
    \E line \in lines :
        /\ status = "compiling" /\ inFn
        /\ Len(codeW) < MaxCode
        /\ Set(Writef(Cur, line), [name |-> "Writef", line |-> line], NoRes, TRUE)
        /\ strCalls' = strCalls

StartBlockCall ==
    \E b \in 1..blk :
        /\ status = "compiling" /\ inFn
        /\ Len(codeW) < MaxCode
        /\ Set(StartBlock(Cur, b), [name |-> "StartBlock", block |-> b], NoRes, TRUE)
        /\ strCalls' = strCalls

\* A block asked for while fewer than `limit` exist in the function.
BlockWithin(limit) ==
    /\ status = "compiling" /\ inFn
    /\ blk < limit
    /\ Set(Block(Cur).c, [name |-> "Block"], Block(Cur).v, TRUE)
    /\ strCalls' = strCalls

BlockCall == BlockWithin(MaxBlk)

TemporaryCall ==
    /\ status = "compiling" /\ inFn
    /\ temp < MaxTemp
    /\ Set(Temporary(Cur).c, [name |-> "Temporary"], Temporary(Cur).v, TRUE)
    /\ strCalls' = strCalls

\* A call with an aggregate argument: the operand list is built first,
\* which names the argument's type, and then handed to Insn.
CallAggCall(types) ==
    \E ty \in types :
        /\ status = "compiling" /\ inFn
        /\ Len(codeW) < MaxCode
        /\ LET n == IRTypeName(Cur, ty)
               call == OpCall(FALSE, OpGlobal("g"), <<[Ty |-> n.v, Op |-> OpTemp(1)]>>)
           IN Set(Insn(n.c, 0, "", "call", <<call>>),
                  [name |-> "Insn", opcode |-> "call", in |-> ty.name], NoRes, TRUE)
        /\ strCalls' = strCalls

\* The end of Compile: Finish, then the result is handed out and the
\* compiler gets fresh buffers.
CompileReturn ==
    /\ status = "compiling" /\ ~inFn /\ Len(ns) = 1
    /\ LET c == Finish(Cur)
       IN /\ out' = [typeW |-> c.typeW, codeW |-> c.codeW]
          /\ typeW' = <<>> /\ codeW' = <<>>
    /\ status' = "done"
    /\ op' = [name |-> "Finish"] /\ res' = NoRes
    /\ UNCHANGED <<blk, temp, ret, loop, ns, heap, comp, locals, strs, strM,
                   data, err, inFn, strCalls, registered, compiles>>

\* Writers: one that takes everything, one that fails at its first
\* call, one that fails at its second, one that takes a single line.
TakeAll == [all |-> TRUE, m |-> 0, e |-> FALSE]
FailAtOnce == [all |-> FALSE, m |-> 0, e |-> TRUE]
TakeOne == [all |-> FALSE, m |-> 1, e |-> FALSE]
Writers ==
    {<<TakeAll, TakeAll>>, <<FailAtOnce, TakeAll>>, <<TakeAll, FailAtOnce>>,
     <<TakeOne, TakeAll>>}

\* WriteTo on the result that Compile returned.
WriteToCall(writers) ==
    \E w \in writers :
        /\ status = "done"
        /\ out' = WriteTo(out, w).r
        /\ op' = [name |-> "WriteTo", w |-> w]
        /\ res' = [n |-> WriteTo(out, w).n, err |-> WriteTo(out, w).err]
        /\ UNCHANGED <<typeW, codeW, blk, temp, ret, loop, ns, heap, comp, locals,
                       strs, strM, data, status, err, inFn, strCalls, registered,
                       compiles>>

EmitSigs ==
    {[export |-> TRUE, name |-> "main", params |-> <<>>, ret |-> <<TypeI32>>],
     [export |-> FALSE, name |-> "f", params |-> <<[Name |-> "a", Ty |-> TypeI8]>>,
      ret |-> <<>>],
     [export |-> FALSE, name |-> "sf", params |-> <<[Name |-> "s", Ty |-> TypeS]>>,
      ret |-> <<TypeS>>]}

Next ==
    \/ StartFunctionCall(EmitSigs)
    \/ EndFunctionCall
    \/ InsnCall({"ret", "storew", "add"})
    \/ StartBlockCall
    \/ BlockCall
    \/ TemporaryCall
    \/ CallAggCall({TypeFoo})
    \/ CompileReturn
    \/ WriteToCall(Writers)

Spec == Init /\ [][Next]_vars

(* ------------------------------ properties ---------------------------- *)

IsRet(line) == line.k = "insn" /\ line.opcode = "ret"

\* The last line of the code buffer is a `ret` instruction.
AfterRet == codeW # <<>> /\ IsRet(codeW[Len(codeW)])

\* Compile has returned its result and nothing has used it yet.
Returned == status = "done" /\ op.name = "Finish"

\* The code written by the translation: the buffer while it runs, the
\* returned result once Compile has returned.
Emitted == IF Returned THEN out.codeW ELSE codeW
Prelude == IF Returned THEN out.typeW ELSE typeW

\* C1: once Insn has written a `ret`, an Insn call writes nothing for as
\* long as that `ret` is the last line of the code buffer, that is until
\* StartBlock writes a label; the Insn call that follows StartBlock is
\* written.
DeadCodeSuppression ==
    [][/\ (op'.name = "Insn" /\ AfterRet) => codeW' = codeW
       /\ (op.name = "StartBlock" /\ op'.name = "Insn")
            => /\ Len(codeW') = Len(codeW) + 1
               /\ codeW'[Len(codeW')].k = "insn"
               /\ codeW'[Len(codeW')].opcode = op'.opcode]_vars

\* An Insn call other than `ret` was made after a `ret` and left no line.
DeadCodeWitness ==
    /\ op.name = "Insn" /\ op.opcode = "storew"
    /\ AfterRet /\ ret

\* An Insn call right after StartBlock, after an earlier `ret`, was written.
RetLine == InsnLine(0, "", "ret", <<>>)

\* C2: every function header is followed by the label @start, the line
\* before every closing brace is a `ret` that is not preceded by another
\* `ret`, and EndFunction appends a `ret` exactly when the last line of the
\* code buffer is not one.
FunctionBodyShape ==
    /\ [](\A i \in DOMAIN Emitted :
            /\ Emitted[i].k = "func"
                 => i < Len(Emitted) /\ Emitted[i + 1] = LabelLine("@start")
            /\ Emitted[i].k = "close"
                 => /\ i > 1 /\ IsRet(Emitted[i - 1])
                    /\ i > 2 => ~IsRet(Emitted[i - 2]))
    /\ [][op'.name = "EndFunction"
            => codeW' = codeW \o (IF AfterRet THEN <<>> ELSE <<RetLine>>)
                              \o <<CloseLine>>]_vars

\* A function was closed whose last block is a started block with no
\* instruction of its own, after a `ret` in the block before it.
FunctionBodyWitness ==
    /\ op.name = "EndFunction"
    /\ Len(codeW) > 3
    /\ codeW[Len(codeW)].k = "close"
    /\ IsRet(codeW[Len(codeW) - 1])
    /\ codeW[Len(codeW) - 2].k = "label"
    /\ IsRet(codeW[Len(codeW) - 3])

\* C3: Temporary and Block return the counter plus one and store it, no
\* call inside a function lowers a counter, EndFunction sets both counters
\* to zero and every function starts with both at zero, so its first
\* temporary and block are 1.
FreshCounters ==
    [][/\ op'.name = "Temporary" => res' = temp + 1 /\ temp' = res' /\ res' >= 1
       /\ op'.name = "Block" => res' = blk + 1 /\ blk' = res' /\ res' >= 1
       /\ op'.name = "EndFunction" => temp' = 0 /\ blk' = 0
       /\ op'.name = "StartFunction" => temp = 0 /\ blk = 0
       /\ (inFn /\ inFn') => temp' >= temp /\ blk' >= blk]_vars

\* The second function of a translation got %t1 after the first function
\* had used %t1 for its parameter.
FreshCountersWitness ==
    /\ op.name = "Temporary" /\ res = 1
    /\ FuncCount = 2
    /\ codeW[1].text = "function :w $sf(:w %t1) {\n"

\* The aggregate identifiers declared in the prelude and named in the code.
PreludeAggs == UNION {Prelude[i].aggs : i \in DOMAIN Prelude}
CodeAggs == UNION {Emitted[i].aggs : i \in DOMAIN Emitted}

\* C6: after finalization the aggregates declared in the types prelude are
\* exactly the aggregates named in the emitted code.
PreludeEqualsCodeAggregates == Returned => PreludeAggs = CodeAggs

(* ------------------------- pools and finalization --------------------- *)

\* The string literals of the model: "hi", "" and "h\n".
StrInputs == {<<104, 105>>, <<>>, <<104, 10>>}

\* A call with a string literal argument: the literal is interned, then
\* the call is handed to Insn.
StringCall(literals) ==
    \E s \in literals :
        /\ status = "compiling" /\ inFn
        /\ Len(strCalls) < MaxStrCalls
        /\ LET g == String(Cur, s)
               call == OpCall(FALSE, OpGlobal("puts"), <<[Ty |-> "l", Op |-> OpGlobal(g.v)]>>)
           IN Set(Insn(g.c, 0, "", "call", <<call>>),
                  [name |-> "String", str |-> s], g.v, TRUE)
        /\ strCalls' = Append(strCalls, s)

\* A global variable declaration.
DeclareGlobalCall(externs, names, types) ==
    \E extern \in externs, name \in names, ty \in types :
        /\ status = "compiling" /\ ~inFn
        /\ Len(data) < MaxData
        /\ Set(DeclareGlobal(Cur, extern, name, ty),
               [name |-> "DeclareGlobal", extern |-> extern, id |-> name, ty |-> ty],
               NoRes, FALSE)
        /\ strCalls' = strCalls

PoolSigs == {[export |-> TRUE, name |-> "main", params |-> <<>>, ret |-> <<TypeI32>>]}

PoolAggs == {TypeS, TypeFoo, TypeBar, TypeBaz, TypeBuf, TypeArr}

\* Translations of functions that call with string literal arguments.
NextStr ==
    \/ StartFunctionCall(PoolSigs)
    \/ EndFunctionCall
    \/ InsnCall({"ret"})
    \/ StringCall(StrInputs)
    \/ CompileReturn
    \/ WriteToCall(Writers)

SpecStr == Init /\ [][NextStr]_vars

\* Translations of functions that call with aggregate arguments.
NextAgg ==
    \/ StartFunctionCall(PoolSigs)
    \/ EndFunctionCall
    \/ InsnCall({"ret"})
    \/ CallAggCall(PoolAggs)
    \/ CompileReturn
    \/ WriteToCall(Writers)

SpecAgg == Init /\ [][NextAgg]_vars

\* Translations with globals, functions, aggregates and string literals.
NextOut ==
    \/ DeclareGlobalCall(BOOLEAN, {"a", "b"}, {TypeI32})
    \/ StartFunctionCall(PoolSigs)
    \/ EndFunctionCall
    \/ CallAggCall({TypeFoo, TypeBar})
    \/ StringCall({<<104, 105>>, <<>>})
    \/ CompileReturn
    \/ WriteToCall({<<TakeAll, TakeAll>>})

SpecOut == Init /\ [][NextOut]_vars

\* The distinct elements of a sequence, in order of first occurrence.
RECURSIVE Distinct(_)
Distinct(s) ==
    IF s = <<>> THEN <<>>
    ELSE LET d == Distinct(SubSeq(s, 1, Len(s) - 1))
             x == s[Len(s)]
         IN IF \E i \in DOMAIN d : d[i] = x THEN d ELSE Append(d, x)

IndexOf(s, x) == CHOOSE i \in DOMAIN s : s[i] = x

IsDataStr(line) == line.k = "datastr"

\* C4: the pool is the sequence of distinct String arguments in order of
\* first occurrence, the map gives each its index from 0, String returns
\* $str<i> for the index of its argument's first occurrence, and Finish
\* writes one data $str<i> definition per pooled string.
StringPool ==
    /\ strs = Distinct(strCalls)
    /\ \A i, j \in DOMAIN strs : strs[i] = strs[j] => i = j
    /\ DOMAIN strM = {strs[i] : i \in DOMAIN strs}
    /\ \A i \in DOMAIN strs : strM[strs[i]] = i - 1
    /\ (op.name = "String" /\ status = "compiling")
         => res = "str" \o Itoa(IndexOf(Distinct(strCalls), op.str) - 1)
    /\ Returned
         => SelectSeq(out.codeW, IsDataStr)
              = [i \in 1..Len(Distinct(strCalls)) |-> StrLine(i - 1, Distinct(strCalls)[i])]

\* A string given a second time, after another one, got its first name,
\* and the finished output defines two strings.
StringPoolWitness ==
    /\ Returned
    /\ Len(strCalls) > Len(strs)
    /\ Len(strs) = 2
    /\ strCalls[1] = strCalls[3] /\ strCalls[1] # strCalls[2]
    /\ Len(SelectSeq(out.codeW, IsDataStr)) = 2

PoolIdents == {Ident(comp[i]) : i \in DOMAIN comp}

\* C5: the aggregate pool is strictly ascending by identifier, holds every
\* identifier ever registered, and a call that registers no new identifier
\* leaves the pool as it was.
AggregatePool ==
    /\ [](/\ \A i \in 1..(Len(comp) - 1) :
                Compare(Ident(comp[i]), Ident(comp[i + 1])) = -1
          /\ PoolIdents = registered)
    /\ [][registered' = registered => comp' = comp]_vars

\* All six layouts are pooled, and the last call registered one of them
\* again.
AggregatePoolWitness ==
    /\ Len(comp) = 6
    /\ op.name = "Insn" /\ op.opcode = "call"
    /\ Str(Ident(comp[2])) = ":b10" /\ Str(Ident(comp[3])) = ":b3"
    /\ Str(Ident(comp[1])) = ":X:wY2"

Rank(line) ==
    CASE line.k = "type" -> 0
      [] line.k \in {"func", "label", "insn", "close"} -> 1
      [] line.k = "datastr" -> 2
      [] line.k = "data" -> 3

IsType(line) == line.k = "type"
IsData(line) == line.k = "data"

\* C7: in the result of a finished translation the type declarations, one
\* per pooled layout in pool order, come first, then the function bodies,
\* then the string definitions in index order, then the definitions of the
\* globals with storage in declaration order.
OutputOrdering ==
    /\ [](Returned =>
            LET r == ResultString(out)
            IN /\ \A i, j \in DOMAIN r : i < j => Rank(r[i]) <= Rank(r[j])
               /\ Len(SelectSeq(r, IsType)) = Len(comp)
               /\ \A i \in DOMAIN comp :
                     SelectSeq(r, IsType)[i].aggs = {Str(Ident(comp[i]))}
               /\ SelectSeq(r, IsDataStr)
                    = [i \in 1..Len(strs) |-> StrLine(i - 1, strs[i])]
               /\ SelectSeq(r, IsData) = [i \in 1..Len(data) |-> DataLine(data[i])])
    /\ [][(op'.name = "DeclareGlobal" /\ err' = "" /\ ~op'.extern)
            => data' = Append(data, [Loc |-> OpGlobal(op'.id), Ty |-> op'.ty])]_vars

\* A finished translation with a type declaration, a function, a string
\* and two globals.
OutputOrderingWitness ==
    /\ Returned
    /\ Len(out.typeW) > 0
    /\ \E i \in DOMAIN out.codeW : out.codeW[i].k = "close"
    /\ \E i \in DOMAIN out.codeW : out.codeW[i].k = "datastr"
    /\ Len(data) = 2

(* ------------------------- names and namespaces ----------------------- *)

\* A namespace opened while fewer than `limit` namespace objects exist.
StartNamespaceWithin(names, limit) ==
    \E name \in names :
        /\ status = "compiling" /\ ~inFn
        /\ Len(heap) < limit
        /\ Set(StartNamespace(Cur, name), [name |-> "StartNamespace", id |-> name],
               NoRes, FALSE)
        /\ strCalls' = strCalls

StartNamespaceCall(names) == StartNamespaceWithin(names, MaxNs)

EndNamespaceCall ==
    /\ status = "compiling" /\ ~inFn
    /\ Set(EndNamespace(Cur), [name |-> "EndNamespace"], NoRes, FALSE)
    /\ strCalls' = strCalls

AliasTypeCall(names) ==
    \E name \in names :
        /\ status = "compiling" /\ ~inFn
        /\ Set(AliasType(Cur, name).c, [name |-> "AliasType", id |-> name],
               AliasType(Cur, name).v, FALSE)
        /\ strCalls' = strCalls

\* A local declaration while fewer than `limit` lines have been written.
DeclareLocalWithin(names, types, limit) ==
    \E name \in names, ty \in types :
        /\ status = "compiling" /\ inFn
        /\ Len(codeW) < limit
        /\ Set(DeclareLocal(Cur, name, ty),
               [name |-> "DeclareLocal", id |-> name, ty |-> ty], NoRes, TRUE)
        /\ strCalls' = strCalls

DeclareLocalCall(names, types) == DeclareLocalWithin(names, types, MaxCode)

VariableCall(names) ==
    \E name \in names :
        /\ status = "compiling" /\ inFn
        /\ Set(Variable(Cur, name).c, [name |-> "Variable", id |-> name],
               Variable(Cur, name).v, TRUE)
        /\ strCalls' = strCalls

NameSigs ==
    {[export |-> FALSE, name |-> "f", params |-> <<>>, ret |-> <<>>],
     [export |-> FALSE, name |-> "g",
      params |-> <<[Name |-> "a", Ty |-> TypeI8], [Name |-> "a", Ty |-> TypeS]>>,
      ret |-> <<>>]}

Names == {"a", "b"}

\* Translations that declare names in nested namespaces and functions.
NextNames ==
    \/ StartNamespaceCall({"a"})
    \/ EndNamespaceCall
    \/ AliasTypeCall({"T", "I32"})
    \/ DeclareGlobalCall({TRUE}, Names, {TypeI32})
    \/ StartFunctionCall(NameSigs)
    \/ EndFunctionCall
    \/ DeclareLocalCall(Names, {TypeI64})

SpecNames == Init /\ [][NextNames]_vars

\* Translations that look names up inside functions of nested namespaces.
NextLookup ==
    \/ StartNamespaceCall({"a"})
    \/ EndNamespaceCall
    \/ DeclareGlobalCall({TRUE}, Names, {TypeI32})
    \/ StartFunctionCall(PoolSigs)
    \/ EndFunctionCall
    \/ DeclareLocalCall(Names, {TypeI64})
    \/ VariableCall(Names)

SpecLookup == Init /\ [][NextLookup]_vars

CurNS == heap[ns[Len(ns)]]
RootNS == heap[1]

\* C8: DeclareGlobal fails with "Variable already exists" exactly when the
\* name is bound in the current namespace, DeclareLocal exactly when it is
\* bound in the current function, AliasType fails with "Type already
\* exists" exactly when the type name is in the current namespace; a
\* declaration that does not fail binds the name.
DuplicateDeclarationFails ==
    [][/\ op'.name = "DeclareGlobal"
            => /\ (err' = "Variable already exists") <=> (op'.id \in DOMAIN CurNS.Vars)
               /\ (op'.id \notin DOMAIN CurNS.Vars)
                    => err' = "" /\ heap'[ns[Len(ns)]].Vars[op'.id] = op'.ty
       /\ op'.name = "DeclareLocal"
            => /\ (err' = "Variable already exists") <=> (op'.id \in DOMAIN locals)
               /\ (op'.id \notin DOMAIN locals)
                    => err' = "" /\ locals'[op'.id].Ty = op'.ty
       /\ op'.name = "AliasType"
            => /\ (err' = "Type already exists") <=> (op'.id \in DOMAIN CurNS.Typs)
               /\ (op'.id \notin DOMAIN CurNS.Typs)
                    => err' = "" /\ op'.id \in DOMAIN heap'[ns[Len(ns)]].Typs]_vars

\* A global was declared in a nested namespace under a name the root
\* namespace binds too, and declaring it there again failed.
DuplicateDeclarationWitness ==
    /\ op.name = "DeclareGlobal" /\ err = "Variable already exists"
    /\ Len(ns) = 2
    /\ op.id \in DOMAIN RootNS.Vars
    /\ RootNS.Vars[op.id] = TypeI32
    /\ op.id \in DOMAIN CurNS.Vars

\* C9: no call replaces the binding of a name in a namespace or in the
\* current function, and StartFunction binds one local per parameter.
NoBindingReplaced ==
    [][/\ \A id \in DOMAIN heap : \A n \in DOMAIN heap[id].Vars :
            heap'[id].Vars[n] = heap[id].Vars[n]
       /\ (inFn /\ inFn') => \A n \in DOMAIN locals : locals'[n] = locals[n]
       /\ (op'.name = "StartFunction" /\ err' = "")
            => Cardinality(DOMAIN locals') = Len(op'.sig.params)]_vars

\* C10: Variable returns the local of that name if there is one, else the
\* global of the innermost open namespace under its prefixed name, else the
\* global of the root namespace, else fails with "Undefined variable".
VariableLookupOrder ==
    [][op'.name = "Variable"
         => IF op'.id \in DOMAIN locals
            THEN err' = "" /\ res' = locals[op'.id]
            ELSE IF op'.id \in DOMAIN CurNS.Vars
            THEN err' = "" /\ res' = [Loc |-> OpGlobal(CurNS.Name \o op'.id),
                                      Ty |-> CurNS.Vars[op'.id]]
            ELSE IF op'.id \in DOMAIN RootNS.Vars
            THEN err' = "" /\ res' = [Loc |-> OpGlobal(op'.id), Ty |-> RootNS.Vars[op'.id]]
            ELSE err' = "Undefined variable: " \o op'.id /\ status' = "failed"]_vars

\* Inside a function of a nested namespace, a name bound as a local, in
\* the nested namespace and in the root namespace resolved to the local.
VariableLookupWitness ==
    /\ op.name = "Variable" /\ err = ""
    /\ Len(ns) = 2
    /\ op.id \in DOMAIN locals
    /\ op.id \in DOMAIN CurNS.Vars
    /\ op.id \in DOMAIN RootNS.Vars
    /\ res = locals[op.id]
    /\ res.Ty = TypeI64

(* ------------------------- scope of the locals ------------------------ *)

ScopeSigs ==
    {[export |-> FALSE, name |-> "f", params |-> <<>>, ret |-> <<>>],
     [export |-> FALSE, name |-> "k", params |-> <<[Name |-> "a", Ty |-> TypeS]>>,
      ret |-> <<>>]}

NextScope ==
    \/ StartFunctionCall(ScopeSigs)
    \/ EndFunctionCall
    \/ DeclareGlobalCall({TRUE}, {"b"}, {TypeI32})
    \/ DeclareLocalWithin(Names, {TypeI64}, MaxLines)
    \/ VariableCall(Names)

SpecScope == Init /\ [][NextScope]_vars

ParamNames(sig) == {sig.params[i].Name : i \in DOMAIN sig.params}

\* C11: the local variable table is cleared on function exit.  EndFunction
\* leaves it empty, it is empty whenever no function is open, a function
\* starts with its own parameters as its only locals, so a Variable call
\* in the next function finds no local or parameter of an earlier one (it
\* fails, or answers with a global), and DeclareLocal of a name of an
\* earlier function succeeds.
LocalsClearedOnExit ==
    /\ [](~inFn /\ status = "compiling" => locals = EmptyMap)
    /\ [][op'.name = "EndFunction" => locals' = EmptyMap]_vars
    /\ [][op'.name = "StartFunction" /\ err' = ""
            => DOMAIN locals' = ParamNames(op'.sig)]_vars
    /\ [][op'.name = "Variable" /\ op'.id \notin DOMAIN locals
            => \/ err' = "Undefined variable: " \o op'.id
               \/ /\ err' = "" /\ op'.id \in DOMAIN heap[1].Vars
                  /\ res' = [Loc |-> OpGlobal(op'.id), Ty |-> heap[1].Vars[op'.id]]]_vars
    /\ [][op'.name = "DeclareLocal" /\ op'.id \notin DOMAIN locals
            => err' = "" /\ op'.id \in DOMAIN locals']_vars

\* The first function had the parameter a; in the second one the local a
\* has just been declared without a failure.
LocalsClearedWitness ==
    /\ FuncCount = 2 /\ inFn /\ status = "compiling"
    /\ codeW[1].text = "function $k(:w %t1) {\n"
    /\ codeW[5].text = "function $f() {\n"
    /\ op.name = "DeclareLocal" /\ op.id = "a" /\ err = ""
    /\ locals["a"].Loc = OpTemp(1)


(* ------------------- Compile on a compiler used before ---------------- *)

\* Compile called again after it returned: the named results start nil,
\* the lowering starts at the top of the new program, and the compiler
\* object is the one the earlier call left.
CompileCall ==
    /\ status \in {"done", "failed"} /\ compiles < MaxCompile
    /\ compiles' = compiles + 1
    /\ status' = "compiling" /\ err' = "" /\ out' = <<>> /\ inFn' = FALSE
    /\ op' = [name |-> "Compile"] /\ res' = NoRes
    /\ UNCHANGED <<typeW, codeW, blk, temp, ret, loop, ns, heap, comp, locals,
                   strs, strM, data, strCalls, registered>>

StartLoopCall ==
    \E start \in 1..blk, end \in 1..blk :
        /\ status = "compiling" /\ inFn
        /\ start < end /\ Len(loop) < MaxLoop
        /\ Set(StartLoop(Cur, start, end),
               [name |-> "StartLoop", start |-> start, end |-> end], NoRes, TRUE)
        /\ strCalls' = strCalls

EndLoopCall ==
    /\ status = "compiling" /\ inFn
    /\ Set(EndLoop(Cur), [name |-> "EndLoop"], NoRes, TRUE)
    /\ strCalls' = strCalls

LoopCall ==
    /\ status = "compiling" /\ inFn
    /\ Set(Loop(Cur).c, [name |-> "Loop"], Loop(Cur).v, TRUE)
    /\ strCalls' = strCalls

\* The type check of a call expression whose callee has type ft.
CallExprTypeOfCall(types) ==
    \E ft \in types :
        /\ status = "compiling" /\ inFn
        /\ Set(CallExpr_typeOf(Cur, ft).c, [name |-> "CallExpr.typeOf", ty |-> ft],
               CallExpr_typeOf(Cur, ft).v, TRUE)
        /\ strCalls' = strCalls

ReuseSigs ==
    {[export |-> FALSE, name |-> "f", params |-> <<[Name |-> "a", Ty |-> TypeI8]>>,
      ret |-> <<>>]}

NextReuse ==
    \/ DeclareGlobalCall({FALSE}, {"g"}, {TypeI32})
    \/ StartFunctionCall(ReuseSigs)
    \/ EndFunctionCall
    \/ InsnCall({"ret"})
    \/ BlockCall
    \/ StartLoopCall
    \/ CallAggCall({TypeS})
    \/ StringCall({<<104, 105>>})
    \/ VariableCall({"a", "x"})
    \/ CompileReturn
    \/ WriteToCall(Writers)
    \/ CompileCall

SpecReuse == Init /\ [][NextReuse]_vars


\* The compiler as NewCompiler leaves it, the output buffers included.
FreshCompiler ==
    /\ strs = <<>> /\ strM = EmptyMap /\ comp = <<>> /\ data = <<>>
    /\ heap = <<[Name |-> "", Vars |-> EmptyMap, Typs |-> baseTypes]>>
    /\ ns = <<1>>
    /\ typeW = <<>> /\ codeW = <<>>

\* C12: Compile called again after a translation that succeeded starts
\* with an empty string pool, aggregate pool and global-data list, a
\* namespace table that holds only the base types, and empty output
\* buffers, as a fresh compiler does.
SecondCompileStartsFresh ==
    [][op'.name = "Compile" /\ status = "done" => FreshCompiler']_vars

\* C13: when Compile returns an error it returns no result, and the types
\* and code buffers of the compiler hold none of the text written before
\* the failure.
FailureDiscardsOutput ==
    status = "failed" => out = <<>> /\ typeW = <<>> /\ codeW = <<>>

\* C14: the Compile that follows a failed one starts with the temporary
\* and block counters at zero, the after-ret flag clear, no local
\* variable and no open loop.
FailureLeaksNothing ==
    [][op'.name = "Compile" /\ status = "failed"
         => /\ temp' = 0 /\ blk' = 0 /\ ~ret'
            /\ locals' = EmptyMap /\ loop' = <<>>]_vars


(* --------------------- panics that Compile hands on ------------------- *)

\* Callee types of a call expression: a function, a pointer to a
\* function, a pointer to an integer, and an integer.
CalleeTypes ==
    {FuncType(TypeI32), PointerType(FuncType(TypeI32)), PointerType(TypeI32), TypeI32}

NextCrash ==
    \/ StartFunctionCall(PoolSigs)
    \/ EndFunctionCall
    \/ BlockCall
    \/ TemporaryCall
    \/ StartLoopCall
    \/ EndLoopCall
    \/ LoopCall
    \/ CallExprTypeOfCall(CalleeTypes)
    \/ VariableCall(Names)

SpecCrash == Init /\ [][NextCrash]_vars

\* C15: every failure during Compile comes back as one error value with
\* one message; no failure of an operation reachable from Compile leaves
\* Compile as a panic.
EveryFailureIsAnError ==
    /\ status # "crashed"
    /\ (err # "" => status = "failed")


(* ------------------------ closing a namespace ------------------------- *)

\* C16: EndNamespace with only the root namespace open fails with
\* "[compiler bug] End of global namespace"; with a nested namespace open
\* it succeeds, changes no namespace object, and the enclosing namespace
\* is the current one again.
EndOfGlobalNamespace ==
    [][op'.name = "EndNamespace"
         => IF Len(ns) = 1
            THEN err' = "[compiler bug] End of global namespace" /\ status' = "failed"
            ELSE /\ err' = "" /\ status' = "compiling"
                 /\ heap' = heap
                 /\ ns' = SubSeq(ns, 1, Len(ns) - 1)
                 /\ heap'[ns'[Len(ns')]] = heap[ns[Len(ns) - 1]]]_vars

\* A nested namespace was opened and closed, a global was declared in the
\* root namespace that is current again, and the next EndNamespace failed.
EndOfGlobalNamespaceWitness ==
    /\ op.name = "EndNamespace" /\ status = "failed"
    /\ err = "[compiler bug] End of global namespace"
    /\ Len(heap) = 2 /\ heap[2].Name = "a."
    /\ "b" \in DOMAIN heap[1].Vars


(* ----------------- function headers, prologues and calls -------------- *)

\* A call of $g: the lowering names the type of every argument, then
\* emits the call with the typed operand list.  st = [c, args].
RECURSIVE CallArguments(_, _, _)
CallArguments(st, tys, i) ==
    IF i > Len(tys) THEN st
    ELSE LET n == IRTypeName(st.c, tys[i])
         IN CallArguments([c |-> n.c,
                           args |-> Append(st.args, [Ty |-> n.v, Op |-> OpTemp(i)])],
                          tys, i + 1)

CallCall(argTypes) ==
    \E tys \in argTypes :
        /\ status = "compiling" /\ inFn
        /\ Len(codeW) < MaxCode
        /\ LET st == CallArguments([c |-> Cur, args |-> <<>>], tys, 1)
           IN Set(Insn(st.c, 0, "", "call", <<OpCall(FALSE, OpGlobal("g"), st.args)>>),
                  [name |-> "Call", tys |-> tys], NoRes, TRUE)
        /\ strCalls' = strCalls

Param(name, ty) == [Name |-> name, Ty |-> ty]

SigInputs ==
    {[export |-> FALSE, name |-> "i8", ret |-> <<TypeI8>>,
      params |-> <<Param("i", TypeI8), Param("j", TypeI16)>>],
     [export |-> FALSE, name |-> "i16", ret |-> <<TypeI16>>,
      params |-> <<Param("i", TypeI32), Param("j", TypeI64)>>],
     [export |-> FALSE, name |-> "bool", ret |-> <<TypeBool>>,
      params |-> <<Param("b", TypeBool)>>],
     [export |-> FALSE, name |-> "f", ret |-> <<TypeS>>,
      params |-> <<Param("bar", TypeS), Param("i", TypeI8)>>],
     [export |-> FALSE, name |-> "g", ret |-> <<TypeF64>>,
      params |-> <<Param("x", TypeF32), Param("foo", TypeFoo), Param("y", TypeF64)>>],
     [export |-> TRUE, name |-> "main", ret |-> <<TypeI32>>, params |-> <<>>],
     [export |-> FALSE, name |-> "h", ret |-> <<>>,
      params |-> <<Param("s", TypeS), Param("foo", TypeFoo)>>]}

CallArgInputs ==
    {<<>>, <<TypeI8>>, <<TypeI16, TypeI32>>, <<TypeBool, TypeI64>>,
     <<TypeS, TypeI8, TypeFoo>>, <<TypeF32, TypeF64>>}

NextSig ==
    \/ StartFunctionCall(SigInputs)
    \/ EndFunctionCall
    \/ CallCall(CallArgInputs)

SpecSig == Init /\ [][NextSig]_vars


\* What the header and a call operand list show for a type: the storage
\* letter, b and h widened to w, or the identifier of the aggregate.
Promoted(letter) == IF letter \in {"b", "h"} THEN "w" ELSE letter
TypeWord(ty) == IF ty.base # "" THEN ty.ir ELSE Str(Ident(ty.layout))

\* "T1 %t1, T2 %t2, ..." for the types tys.
RECURSIVE TypedList(_, _)
TypedList(tys, i) ==
    IF i > Len(tys) THEN ""
    ELSE (IF i > 1 THEN ", " ELSE "") \o Promoted(TypeWord(tys[i])) \o " %t" \o Itoa(i)
         \o TypedList(tys, i + 1)

ParamTypes(sig) == [i \in DOMAIN sig.params |-> sig.params[i].Ty]

ExpectedHeader(sig) ==
    (IF sig.export THEN "export " ELSE "") \o "function "
    \o (IF sig.ret = <<>> THEN "" ELSE Promoted(TypeWord(sig.ret[1])) \o " ")
    \o "$" \o sig.name \o "(" \o TypedList(ParamTypes(sig), 1) \o ") {\n"

\* C17: in a function header every parameter type and the return type,
\* and in a call operand list every argument type, is written w when its
\* letter is b or h; any other letter and an aggregate identifier is
\* written as it is.
ParameterPromotion ==
    [][/\ op'.name = "StartFunction" /\ err' = ""
            => codeW'[Len(codeW) + 1].text = ExpectedHeader(op'.sig)
       /\ op'.name = "Call" /\ ~ret
            => /\ Len(codeW') = Len(codeW) + 1
               /\ codeW'[Len(codeW')].text
                    = "\tcall $g(" \o TypedList(op'.tys, 1) \o ")\n"]_vars

\* In bool(b Bool) Bool, whose header shows w for the byte parameter and
\* the byte result, $g was called with a halfword and a word argument.
ParameterPromotionWitness ==
    /\ Len(codeW) = 5 /\ op.name = "Call" /\ op.tys = <<TypeI16, TypeI32>>
    /\ codeW[1].text = "function w $bool(w %t1) {\n"
    /\ codeW[4].text = "\tstoreb %t1, %t2\n"
    /\ codeW[5].text = "\tcall $g(w %t1, w %t2)\n"

IsPrim(ty) == ty.base # ""
PrimCount(params, i) == Cardinality({j \in 1..i : IsPrim(params[j].Ty)})
\* The slot of the register-sized parameter i, and the parameter that
\* owns the k-th slot.
Slot(params, i) == Len(params) + PrimCount(params, i)
SlotOwner(params, k) ==
    CHOOSE i \in DOMAIN params : IsPrim(params[i].Ty) /\ PrimCount(params, i) = k

\* Line q of the prologue: the alloc and the store of every slot.
PrologueText(params, q) ==
    LET i == SlotOwner(params, (q + 1) \div 2)
        ty == params[i].Ty
        slot == "%t" \o Itoa(Slot(params, i))
    IN IF q % 2 = 1
       THEN "\t" \o slot \o " =l " \o (IF ty.Align <= 4 THEN "alloc4" ELSE "alloc8")
            \o " " \o Itoa(ty.Size) \o "\n"
       ELSE "\tstore" \o ty.ir \o " %t" \o Itoa(i) \o ", " \o slot \o "\n"

\* C18: StartFunction with n parameters names them %t1..%tn in the
\* header; then every register-sized parameter, in declaration order,
\* gets the next temporary as its slot, an alloc of its size, a store of
\* the incoming temporary with its storage letter, and its name bound to
\* the slot; an aggregate parameter emits nothing and its name is bound
\* to the incoming temporary.
FunctionPrologue ==
    [][op'.name = "StartFunction" /\ err' = ""
         => LET ps == op'.sig.params
                m == PrimCount(ps, Len(ps))
            IN /\ Len(codeW') = Len(codeW) + 2 + 2 * m
               /\ codeW'[Len(codeW) + 1].text = ExpectedHeader(op'.sig)
               /\ codeW'[Len(codeW) + 2].text = "@start\n"
               /\ \A q \in 1..(2 * m) :
                     codeW'[Len(codeW) + 2 + q].text = PrologueText(ps, q)
               /\ temp' = Len(ps) + m
               /\ DOMAIN locals' = ParamNames(op'.sig)
               /\ \A i \in DOMAIN ps :
                     (\A j \in DOMAIN ps : j > i => ps[j].Name # ps[i].Name)
                     => locals'[ps[i].Name]
                          = [Loc |-> OpTemp(IF IsPrim(ps[i].Ty) THEN Slot(ps, i) ELSE i),
                             Ty |-> ps[i].Ty]]_vars

\* g(x F32, foo Foo, y F64) has just been opened: x and y have the slots
\* %t4 and %t5, foo is the incoming %t2.
FunctionPrologueWitness ==
    /\ op.name = "StartFunction" /\ op.sig.name = "g" /\ err = ""
    /\ Len(codeW) = 6
    /\ codeW[1].text = "function d $g(s %t1, :w2l %t2, d %t3) {\n"
    /\ codeW[3].text = "\t%t4 =l alloc4 4\n"
    /\ codeW[4].text = "\tstores %t1, %t4\n"
    /\ codeW[5].text = "\t%t5 =l alloc8 8\n"
    /\ codeW[6].text = "\tstored %t3, %t5\n"
    /\ locals["foo"].Loc = OpTemp(2) /\ locals["y"].Loc = OpTemp(5)


(* --------------------------- local storage ---------------------------- *)

AllocTypes == {TypeI8, TypeI32, TypeI64, TypeFoo, TypeAlign16, TypeAlign32}

NextAlloc ==
    \/ StartFunctionCall(PoolSigs)
    \/ EndFunctionCall
    \/ InsnCall({"ret"})
    \/ DeclareLocalCall(Names, AllocTypes)

SpecAlloc == Init /\ [][NextAlloc]_vars

\* C19: the storage of a local is allocated with alloc4 for an alignment
\* of at most 4, alloc8 for 5..8 and alloc16 for 9..16, the operand is the
\* size of the type and the result has base l; an alignment above 16
\* fails with "Invalid alignment" and writes nothing.  (After a ret the
\* instruction is dropped like any other.)
AllocByAlignment ==
    [][op'.name = "DeclareLocal" /\ op'.id \notin DOMAIN locals
         => LET a == op'.ty.Align
                loc == "%t" \o Itoa(temp + 1)
            IN IF a > 16
               THEN err' = "Invalid alignment" /\ status' = "failed" /\ codeW' = codeW
               ELSE /\ err' = ""
                    /\ ret => codeW' = codeW
                    /\ ~ret =>
                         /\ Len(codeW') > Len(codeW)
                         /\ codeW'[Len(codeW) + 1].opcode
                              = CASE a \in 1..4 -> "alloc4"
                                  [] a \in 5..8 -> "alloc8"
                                  [] a \in 9..16 -> "alloc16"
                         /\ codeW'[Len(codeW) + 1].text
                              = "\t" \o loc \o " =l " \o codeW'[Len(codeW) + 1].opcode
                                \o " " \o Itoa(op'.ty.Size) \o "\n"]_vars

\* A local of alignment 16 got its alloc16, and the declaration of one of
\* alignment 32 then failed.
AllocByAlignmentWitness ==
    /\ op.name = "DeclareLocal" /\ op.ty = TypeAlign32
    /\ status = "failed" /\ err = "Invalid alignment"
    /\ Len(codeW) = 3 /\ codeW[3].text = "\t%t1 =l alloc16 32\n"


(* ----------------------------- global data ---------------------------- *)

GlobalNames == {"b", "c"}

NextData ==
    \/ StartNamespaceCall({"a"})
    \/ EndNamespaceCall
    \/ DeclareGlobalCall(BOOLEAN, GlobalNames, {TypeI32, TypeBuf})
    \/ CompileReturn
    \/ WriteToCall({<<TakeAll, TakeAll>>})

SpecData == Init /\ [][NextData]_vars

\* The alignment and the size Finish prints for a global of type ty:
\* those of the type, for an array those of the pointer to its element.
DataAlign(ty) == IF Kind(ty) = "ArrayType" THEN 8 ELSE ty.Align
DataSize(ty) == IF Kind(ty) = "ArrayType" THEN 8 ELSE ty.Size

\* The definition line of a global of type ty named by its full name.
DataText(full, ty) ==
    "data $" \o full \o " = align " \o Itoa(DataAlign(ty)) \o " { z "
    \o Itoa(DataSize(ty)) \o " }\n"

\* C20: a global declared without extern is recorded once, under the
\* name prefixed by its namespace, and no other call changes the record;
\* the result of Finish has exactly one data line per record, in
\* declaration order, with the alignment and the size Finish takes from
\* the concrete form of the type.  A global declared extern is not
\* recorded, so it gets no data line, and both kinds resolve by lookup to
\* the prefixed name with the declared type.
GlobalData ==
    /\ [][op'.name = "DeclareGlobal" /\ err' = ""
            => /\ Variable(Cur', op'.id).v
                    = [Loc |-> OpGlobal(CurNS.Name \o op'.id), Ty |-> op'.ty]
               /\ op'.extern => data' = data
               /\ ~op'.extern
                    => data' = Append(data, [Loc |-> OpGlobal(CurNS.Name \o op'.id),
                                             Ty |-> op'.ty])]_vars
    /\ [][op'.name # "DeclareGlobal" \/ err' # "" => data' = data]_vars
    /\ [](Returned
            => LET lines == SelectSeq(out.codeW, IsData)
               IN /\ Len(lines) = Len(data)
                  /\ \A i \in DOMAIN data :
                        lines[i].text = DataText(data[i].Loc.g, data[i].Ty))

\* extern var b I32; var c [I8 10]; ns a { var b I32 }: the result
\* defines $c and $a.b in this order and does not define $b, which the
\* root namespace binds.
GlobalDataWitness ==
    /\ Returned
    /\ DOMAIN heap[1].Vars = {"a", "b", "c"}
    /\ heap[1].Vars["b"] = TypeI32 /\ heap[1].Vars["c"] = TypeBuf
    /\ Len(out.codeW) = 2
    /\ out.codeW[1].text = "data $c = align 8 { z 8 }\n"
    /\ out.codeW[2].text = "data $a.b = align 4 { z 4 }\n"


(* ----------------------------- type checks ---------------------------- *)

DerefTypeOfCall(types) ==
    \E vt \in types :
        /\ status = "compiling" /\ inFn
        /\ Set(DerefExpr_TypeOf(Cur, vt).c, [name |-> "DerefExpr.TypeOf", ty |-> vt],
               DerefExpr_TypeOf(Cur, vt).v, TRUE)
        /\ strCalls' = strCalls

BinaryTypeOfCall(operators, types) ==
    \E o \in operators, l \in types, r \in types :
        /\ status = "compiling" /\ inFn
        /\ Set(BinaryExpr_TypeOf(Cur, o, l, r).c,
               [name |-> "BinaryExpr.TypeOf", operator |-> o, l |-> l, r |-> r],
               BinaryExpr_TypeOf(Cur, o, l, r).v, TRUE)
        /\ strCalls' = strCalls

\* Operand types of a dereference: pointers to an integer and to a
\* structure, the generic pointer, an integer and a structure.
DerefOperandTypes ==
    {PointerType(TypeI32), PointerType(TypeS), GenericPointer, TypeI32, TypeS}

BinaryOperators == {"+", "-", "*", "/", "%", "&", "<<", ">>", "=="}
BinaryOperandTypes ==
    {TypeI8, TypeI32, TypeI64, TypeF64, IntLitType, FloatLitType,
     PointerType(TypeI32), TypeS, TypeBuf}

NextCheck ==
    \/ StartFunctionCall(PoolSigs)
    \/ EndFunctionCall
    \/ TemporaryCall
    \/ DerefTypeOfCall(DerefOperandTypes)
    \/ BinaryTypeOfCall(BinaryOperators, BinaryOperandTypes)

SpecCheck == Init /\ [][NextCheck]_vars

\* C21: the type check of a dereference yields the pointee for a pointer
\* to T, fails with "Dereference of non-pointer type" for an operand that
\* is no pointer, and fails with "Generic pointer may not be
\* dereferenced" for the generic pointer.
DerefTypeCheck ==
    [][op'.name = "DerefExpr.TypeOf"
         => IF Kind(op'.ty) # "PointerType"
            THEN err' = "Dereference of non-pointer type" /\ status' = "failed"
            ELSE IF op'.ty = GenericPointer
            THEN err' = "Generic pointer may not be dereferenced" /\ status' = "failed"
            ELSE err' = "" /\ res' = op'.ty.To]_vars

ArithmeticOperators == {"+", "-", "*", "/"}
ShiftOperators == {"<<", ">>"}
IsIntegerType(ty) == ty \in IntegerTypes \/ Kind(ty) = "IntLitType"
\* An integer of at most 32 bits, or an integer literal.
FitsWord(ty) == Kind(ty) = "IntLitType" \/ (ty \in IntegerTypes /\ ty.Size <= 4)

\* C22: the type check of a binary expression fails unless the operand
\* types are compatible, for an operator other than + - * / unless both
\* are of integer type, and for a shift unless the right operand fits in
\* a word; when it succeeds it yields the type of the side that is not a
\* literal type.
BinaryTypeCheck ==
    [][op'.name = "BinaryExpr.TypeOf"
         => LET allowed ==
                    /\ Compatible(op'.l, op'.r)
                    /\ op'.operator \notin ArithmeticOperators
                         => IsIntegerType(op'.l) /\ IsIntegerType(op'.r)
                    /\ op'.operator \in ShiftOperators => FitsWord(op'.r)
            IN /\ ~allowed => err' # "" /\ status' = "failed"
               /\ err' = "" /\ IsConcrete(op'.l) => res' = op'.l
               /\ err' = "" /\ ~IsConcrete(op'.l) /\ IsConcrete(op'.r) => res' = op'.r]_vars


(* ------------------------------ loop stack ---------------------------- *)

NextLoop ==
    \/ StartFunctionCall(PoolSigs)
    \/ EndFunctionCall
    \/ BlockWithin(MaxLoopBlk)
    \/ StartLoopCall
    \/ EndLoopCall
    \/ LoopCall

SpecLoop == Init /\ [][NextLoop]_vars

\* C23: the open loops form a stack.  StartLoop puts its blocks on top,
\* EndLoop with a loop open takes the top off and leaves the enclosing
\* loops as they were, Loop with a loop open answers with the blocks of
\* the top, the innermost open loop, and no other call touches the stack.
LoopStackDiscipline ==
    [][/\ op'.name = "StartLoop"
            => loop' = Append(loop, [Start |-> op'.start, End |-> op'.end])
       /\ op'.name = "EndLoop" /\ Len(loop) > 0
            => err' = "" /\ loop' = SubSeq(loop, 1, Len(loop) - 1)
       /\ op'.name = "Loop" /\ Len(loop) > 0
            => err' = "" /\ res' = loop[Len(loop)] /\ loop' = loop
       /\ op'.name \notin {"StartLoop", "EndLoop"} => loop' = loop]_vars

\* An inner loop has just been ended with the loop of the blocks 1 and 2
\* around it, which is the one left open.
LoopStackWitness ==
    /\ op.name = "EndLoop" /\ err = "" /\ status = "compiling" /\ blk = 3
    /\ loop = <<[Start |-> 1, End |-> 2]>>


(* -------------------------- namespace prefixes ------------------------ *)

NextNest ==
    \/ StartNamespaceWithin({"a", "b"}, MaxNest)
    \/ EndNamespaceCall
    \/ DeclareGlobalCall(BOOLEAN, {"g"}, {TypeI32})
    \/ StartFunctionCall(PoolSigs)
    \/ EndFunctionCall
    \/ CompileReturn
    \/ WriteToCall({<<TakeAll, TakeAll>>})

SpecNest == Init /\ [][NextNest]_vars

\* The name under which the namespace at position i of the stack was
\* opened: the one that the namespace below it binds to it.
OpenedAs(i) ==
    CHOOSE n \in DOMAIN heap[ns[i - 1]].Vars : heap[ns[i - 1]].Vars[n] = NsRef(ns[i])

\* The names of the namespaces opened from the root down to position i,
\* each followed by a dot.
RECURSIVE DottedPath(_)
DottedPath(i) == IF i <= 1 THEN "" ELSE DottedPath(i - 1) \o OpenedAs(i) \o "."

\* C24: every namespace on the stack has as its prefix the names of the
\* namespaces opened from the root down to itself, each followed by a
\* dot, the root the empty prefix; a function is written and a global
\* with storage is recorded and defined under $<prefix><name> of the
\* namespace that is current at the declaration.
NamespacePrefix ==
    /\ [](status = "compiling" => \A i \in DOMAIN ns : heap[ns[i]].Name = DottedPath(i))
    /\ [][op'.name = "StartFunction" /\ err' = ""
            => codeW'[Len(codeW) + 1].text
                 = ExpectedHeader([op'.sig EXCEPT !.name = DottedPath(Len(ns)) \o @])]_vars
    /\ [][op'.name = "DeclareGlobal" /\ err' = "" /\ ~op'.extern
            => data'[Len(data')].Loc = OpGlobal(DottedPath(Len(ns)) \o op'.id)]_vars
    /\ [](Returned
            => \A i \in DOMAIN data :
                 SelectSeq(out.codeW, IsData)[i].text = DataText(data[i].Loc.g, data[i].Ty))

\* ns a { ns b { var g I32; fn main() I32 {...} } }, inside main.
NamespacePrefixWitness ==
    /\ status = "compiling" /\ inFn /\ Len(ns) = 3
    /\ heap[ns[3]].Name = "a.b."
    /\ Len(data) = 1 /\ data[1].Loc = OpGlobal("a.b.g")
    /\ codeW[1].text = "export function w $a.b.main() {\n"


(* ------------------- declarations in suppressed code ------------------ *)

NextDead ==
    \/ StartFunctionCall(PoolSigs)
    \/ EndFunctionCall
    \/ InsnCall({"ret"})
    \/ BlockCall
    \/ StartBlockCall
    \/ DeclareLocalCall(Names, {TypeI32})
    \/ VariableCall(Names)
    \/ WritefCall({InsnLine(0, "", "jmp", <<OpBlock(1)>>)})

SpecDead == Init /\ [][NextDead]_vars

\* The lines of the function that is open: from its header on.
FunctionStart ==
    CHOOSE i \in DOMAIN codeW :
        codeW[i].k = "func" /\ \A j \in DOMAIN codeW : codeW[j].k = "func" => j <= i

\* The open function holds the alloc that defines temporary t for a
\* value of type ty.
HasAlloc(t, ty) ==
    \E i \in FunctionStart..Len(codeW) :
        /\ codeW[i].opcode \in {"alloc4", "alloc8", "alloc16"}
        /\ codeW[i].text = "\t%t" \o Itoa(t) \o " =l " \o codeW[i].opcode \o " "
                            \o Itoa(ty.Size) \o "\n"

\* C25: every local that Variable resolves in the open function is bound
\* to a temporary whose alloc is in the code of that function, whatever
\* the order of DeclareLocal, Insn (ret included) and StartBlock.
EveryLocalHasStorage ==
    status = "compiling" /\ inFn
        => \A n \in DOMAIN locals : HasAlloc(locals[n].Loc.t, locals[n].Ty)


(* ------------------------ duplicate declarations ---------------------- *)

NextDup ==
    \/ AliasTypeCall({"T"})
    \/ DeclareGlobalCall(BOOLEAN, Names, {TypeI32})
    \/ StartFunctionCall(PoolSigs)
    \/ EndFunctionCall
    \/ DeclareLocalCall(Names, {TypeI64})

SpecDup == Init /\ [][NextDup]_vars

\* The call of this step declares a name that its scope already holds.
IsDuplicate(o) ==
    \/ o.name = "DeclareLocal" /\ o.id \in DOMAIN locals
    \/ o.name = "DeclareGlobal" /\ o.id \in DOMAIN CurNS.Vars
    \/ o.name = "AliasType" /\ o.id \in DOMAIN CurNS.Typs

\* C26: a declaration rejected as a duplicate changes nothing.  DeclareLocal
\* and DeclareGlobal of a bound name fail with "Variable already exists",
\* AliasType of a bound name with "Type already exists", and the step
\* keeps every binding, takes no temporary, writes no line of types or
\* code and adds no global-data entry.
DuplicateChangesNothing ==
    [][op'.name \in {"DeclareLocal", "DeclareGlobal", "AliasType"}
         => /\ IsDuplicate(op') <=> err' \in {"Variable already exists", "Type already exists"}
            /\ IsDuplicate(op')
                 => /\ err' = IF op'.name = "AliasType" THEN "Type already exists"
                                ELSE "Variable already exists"
                    /\ UNCHANGED <<heap, ns, locals, temp, blk, ret, typeW, codeW,
                                   data, comp, strs, strM, loop>>]_vars

DuplicateWitness ==
    /\ op.name = "DeclareLocal" /\ err = "Variable already exists"
    /\ op.id \in DOMAIN locals /\ temp >= 1 /\ Len(data) >= 1
    /\ \E i \in DOMAIN codeW : codeW[i].opcode = "alloc8"
    /\ DOMAIN heap[1].Typs # {}


(* ---------------------- the namespace stack's bottom ------------------ *)

\* C27: the namespace stack is never empty and its bottom element is the
\* root namespace, in every state of a compiler, the one left by an
\* EndNamespace that reported the end of the global namespace included;
\* so NS() is always defined.
NamespaceStackNeverEmpty ==
    /\ Len(ns) >= 1
    /\ ns[1] = 1 /\ heap[ns[1]].Name = ""


====
